---------------------------- MODULE Spec2Model ----------------------------
(***************************************************************************)
(* Model of the brokerage assistant's position reconstruction              *)
(* (PortfolioDataService.computePositions and the readers built on it) and *)
(* of the market-data proxy's expiry cache (getQuote / getBars over the    *)
(* market_data_cache table, and the uncached getSnapshot), of              *)
(* PortfolioDataService.getPortfolio and of the agent-query function's     *)
(* processQuery.                                                           *)
(*                                                                         *)
(* JavaScript numbers are modelled as exact rationals <<num, den>> in      *)
(* lowest terms with den > 0; IEEE rounding is not modelled.               *)
(***************************************************************************)
EXTENDS Integers, Sequences, FiniteSets, TLC

VARIABLES
    data,        \* computePositions: the rows returned by the TradeData query
    idx,         \* computePositions: number of rows the forEach has consumed
    positions,   \* computePositions: the Map symbol -> record
    last,        \* computePositions: locals of the most recent callback call
    run,         \* which call of computePositions is in progress
    firstResult, \* the array returned by the first call of computePositions
    now,         \* proxy: wall clock, in seconds
    cache,       \* proxy: rows of table market_data_cache
    nextId,      \* proxy: next row id (uuid_generate_v4 stand-in)
    pc,          \* proxy: per request, where its handler is
    call,        \* proxy: per request, the handler's locals
    nFetch,      \* proxy: number of provider requests made so far
    ticks,       \* proxy: number of clock advances so far
    lastHit,     \* proxy: the most recent cache hit
    lastFetch,   \* proxy: per key, when the provider last answered ok
    purged,      \* proxy: the rows clean_expired_cache has deleted so far
    balances,    \* getPortfolio: rows of table AccountBalance
    pfpc,        \* getPortfolio: where the call is
    portfolio,   \* getPortfolio: its locals, and what it returned or threw
    agpc,        \* processQuery: where the call is
    ag,          \* processQuery: its request and locals
    answers,     \* processQuery: number of requests answered or failed so far
    firstAnswer, \* processQuery: what the first answered request returned
    conversation_history, \* processQuery: rows of table conversation_history
    ws,                \* voice agent: this.ws, by the state of its socket
    audioContext,      \* voice agent: state of this.audioContext
    audioQueue,        \* voice agent: this.audioQueue, chunks by number
    isProcessingAudio, \* voice agent: this.isProcessingAudio
    pendingClose,      \* voice agent: sockets closed, onclose not yet run
    heard,             \* voice agent: every chunk received, and its fate
    started,           \* voice agent: the chunks in the order source.start ran
    connects,          \* voice agent: number of connect() calls so far
    disconnected,      \* voice agent: disconnect() has been called
    interrupted        \* voice agent: playback has been interrupted

reconVars == <<data, idx, positions, last, run, firstResult>>
cacheVars ==
    <<now, cache, nextId, pc, call, nFetch, ticks, lastHit, lastFetch, purged>>
portfolioVars == <<balances, pfpc, portfolio>>
agentVars == <<agpc, ag, answers, firstAnswer, conversation_history>>
voiceVars ==
    <<ws, audioContext, audioQueue, isProcessingAudio, pendingClose, heard,
      started, connects, disconnected, interrupted>>
vars == <<data, idx, positions, last, run, firstResult,
          now, cache, nextId, pc, call, nFetch, ticks, lastHit, lastFetch, purged,
          balances, pfpc, portfolio,
          agpc, ag, answers, firstAnswer, conversation_history,
          ws, audioContext, audioQueue, isProcessingAudio, pendingClose, heard,
          started, connects, disconnected, interrupted>>

---------------------------------------------------------------------------
(* Bounds *)

MaxTrades == 3
MaxFetches == 3
MaxTicks == 2

---------------------------------------------------------------------------
(* Exact rational arithmetic standing in for JavaScript numbers *)

Abs(x) == IF x < 0 THEN -x ELSE x

RECURSIVE GCD(_, _)
GCD(a, b) == IF b = 0 THEN a ELSE GCD(b, a % b)

Rat(n, d) ==
    LET s == IF d < 0 THEN -1 ELSE 1
        g == GCD(Abs(n), Abs(d))
    IN  <<(s * n) \div g, (s * d) \div g>>

RInt(n) == <<n, 1>>
RZero == <<0, 1>>
RAdd(x, y) == Rat(x[1] * y[2] + y[1] * x[2], x[2] * y[2])
RSub(x, y) == Rat(x[1] * y[2] - y[1] * x[2], x[2] * y[2])
RMul(x, y) == Rat(x[1] * y[1], x[2] * y[2])
RDiv(x, y) == Rat(x[1] * y[2], x[2] * y[1])
RLess(x, y) == x[1] * y[2] < y[1] * x[2]
RLeq(x, y) == x[1] * y[2] <= y[1] * x[2]
RMax(x, y) == IF RLess(x, y) THEN y ELSE x

---------------------------------------------------------------------------
(* Raw column values: number | string | null *)

Num(v) == [k |-> "num", v |-> v]
NotANumber == [k |-> "nan", v |-> 0]

\* toNumber: Number(value), 0 unless finite
toNumber(value) == IF value.k = "num" THEN value.v ELSE 0

\* String.prototype.trim on a string given as its characters
RECURSIVE trimStart(_)
trimStart(s) ==
    IF s # <<>> /\ Head(s) = " " THEN trimStart(Tail(s)) ELSE s

RECURSIVE trimEnd(_)
trimEnd(s) ==
    IF s # <<>> /\ s[Len(s)] = " " THEN trimEnd(SubSeq(s, 1, Len(s) - 1)) ELSE s

trim(s) == trimEnd(trimStart(s))

\* String.prototype.toUpperCase, one character
toUpperCase(c) ==
    CASE c = "s" -> "S"
      [] c = "b" -> "B"
      [] c = "e" -> "E"
      [] c = "l" -> "L"
      [] c = "u" -> "U"
      [] c = "y" -> "Y"
      [] OTHER -> c

\* (trade.TradeType ?? '').toUpperCase().startsWith('S')
IsSell(tradeType) == tradeType # <<>> /\ toUpperCase(Head(tradeType)) = "S"

---------------------------------------------------------------------------
(* computePositions: the Map and the forEach callback *)

Undefined == <<>>
Some(v) == <<v>>

\* Map.prototype.get / has / set / delete on an insertion-ordered entry list
RECURSIVE MapIndex(_, _)
MapIndex(m, key) ==
    IF m = <<>> THEN 0
    ELSE IF m[Len(m)].key = key THEN Len(m)
    ELSE MapIndex(SubSeq(m, 1, Len(m) - 1), key)

MapHas(m, key) == MapIndex(m, key) # 0
MapGet(m, key) == m[MapIndex(m, key)].value

MapSet(m, key, value) ==
    IF MapHas(m, key)
    THEN [m EXCEPT ![MapIndex(m, key)] = [key |-> key, value |-> value]]
    ELSE Append(m, [key |-> key, value |-> value])

MapDelete(m, key) ==
    IF MapHas(m, key)
    THEN SubSeq(m, 1, MapIndex(m, key) - 1) \o SubSeq(m, MapIndex(m, key) + 1, Len(m))
    ELSE m

\* new Map()
KeptMap == positions
NewMap == <<>>

\* the literal a missing symbol starts from
FreshRecord ==
    [shares |-> 0, costBasis |-> RZero, avgCost |-> RZero, lastPrice |-> 0,
     previousPrice |-> Undefined, totalVolume |-> 0]

\* const qty = Math.abs(toNumber(trade.StockShareQty))
TradeQty(trade) == Abs(toNumber(trade.StockShareQty))

\* const price = toNumber(trade.StockTradePrice)
TradePrice(trade) == toNumber(trade.StockTradePrice)

\* the two early returns: if (!symbol) return; if (!qty || !price) return;
SkipsOnlyBlankSymbol(trade) == trim(trade.Symbol) = <<>>
Skipped(trade) ==
    \/ trim(trade.Symbol) = <<>>
    \/ TradeQty(trade) = 0
    \/ TradePrice(trade) = 0

\* record.totalVolume += qty; previousPrice = lastPrice || previousPrice; lastPrice = price
Touch(record, qty, price) ==
    [record EXCEPT !.totalVolume = @ + qty,
                   !.previousPrice = IF record.lastPrice # 0
                                     THEN Some(record.lastPrice)
                                     ELSE record.previousPrice,
                   !.lastPrice = price]

\* const reductionQty = Math.min(qty, record.shares)
RawQtyReduction(qty, shares) == qty
ReductionQty(qty, shares) == IF qty < shares THEN qty ELSE shares

\* the isSell branch
SellBranch(record, qty) ==
    LET reductionQty == ReductionQty(qty, record.shares)
        costReduction == RMul(RInt(reductionQty), record.avgCost)
    IN  [record EXCEPT !.shares = @ - qty,
                       !.costBasis = RMax(RZero, RSub(record.costBasis, costReduction))]

\* the else branch
BuyBranchSharesOnly(record, qty, price) ==
    [record EXCEPT !.shares = @ + qty]
BuyBranch(record, qty, price) ==
    [record EXCEPT !.shares = @ + qty,
                   !.costBasis = RAdd(@, RInt(price * qty))]

\* if (record.shares > 0) { avgCost = costBasis / shares; set } else { delete }
KeepsFlat(m, symbol, record) ==
    MapSet(m, symbol, record)
KeepsShort(m, symbol, record) ==
    IF record.shares # 0
    THEN MapSet(m, symbol,
                [record EXCEPT !.avgCost = RDiv(record.costBasis, RInt(record.shares))])
    ELSE MapDelete(m, symbol)
StaleAverage(m, symbol, record) ==
    IF record.shares > 0 THEN MapSet(m, symbol, record) ELSE MapDelete(m, symbol)
Commit(m, symbol, record) ==
    IF record.shares > 0
    THEN MapSet(m, symbol,
                [record EXCEPT !.avgCost = RDiv(record.costBasis, RInt(record.shares))])
    ELSE MapDelete(m, symbol)

NoCall ==
    [skipped |-> TRUE, symbol |-> <<>>, qty |-> 0, price |-> 0, isSell |-> FALSE,
     before |-> FreshRecord, reductionQty |-> 0, costReduction |-> RZero,
     record |-> FreshRecord]

\* one invocation of the forEach callback on array[index]
LooksAhead(m, array, index) ==
    LET trade == array[IF index < Len(array) THEN index + 1 ELSE index]
    IN  IF Skipped(trade) THEN [positions |-> m, locals |-> NoCall]
        ELSE [positions |-> Commit(m, trim(trade.Symbol),
                                   BuyBranch(FreshRecord, TradeQty(trade), TradePrice(trade))),
              locals |-> NoCall]
Callback(m, array, index) ==
    LET trade == array[index]
        symbol == trim(trade.Symbol)
        qty == TradeQty(trade)
        price == TradePrice(trade)
        isSell == IsSell(trade.TradeType)
        before == IF MapHas(m, symbol) THEN MapGet(m, symbol) ELSE FreshRecord
        touched == Touch(before, qty, price)
        record == IF isSell THEN SellBranch(touched, qty)
                  ELSE BuyBranch(touched, qty, price)
    IN  IF Skipped(trade)
        THEN [positions |-> m, locals |-> [NoCall EXCEPT !.symbol = symbol]]
        ELSE [positions |-> Commit(m, symbol, record),
              locals |-> [skipped |-> FALSE, symbol |-> symbol, qty |-> qty,
                          price |-> price, isSell |-> isSell, before |-> before,
                          reductionQty |-> IF isSell
                                           THEN ReductionQty(qty, before.shares) ELSE 0,
                          costReduction |-> IF isSell
                                            THEN RMul(RInt(ReductionQty(qty, before.shares)),
                                                      before.avgCost)
                                            ELSE RZero,
                          record |-> record]]

\* Array.from(positions.entries()).map(...)
ComputationOf(entry) ==
    [symbol |-> entry.key, name |-> entry.key, shares |-> entry.value.shares,
     avgCost |-> entry.value.avgCost, currentPrice |-> entry.value.lastPrice,
     previousPrice |-> entry.value.previousPrice,
     totalVolume |-> entry.value.totalVolume]

Computations(m) == [i \in 1..Len(m) |-> ComputationOf(m[i])]

---------------------------------------------------------------------------
(* getPositions / getStocks: filter, map, sort *)

HasShares(position) == position.shares > 0

\* Array.prototype.filter((position) => position.shares > 0)
RECURSIVE FilterHasShares(_)
FilterHasShares(seq) ==
    IF seq = <<>> THEN <<>>
    ELSE (IF HasShares(Head(seq)) THEN <<Head(seq)>> ELSE <<>>)
         \o FilterHasShares(Tail(seq))

PositionOf(position) ==
    LET totalValue == RInt(position.currentPrice * position.shares)
        totalCost == RMul(position.avgCost, RInt(position.shares))
        gainLoss == RSub(totalValue, totalCost)
    IN  [symbol |-> position.symbol, name |-> position.name,
         shares |-> position.shares, avgCost |-> position.avgCost,
         currentPrice |-> position.currentPrice,
         totalValue |-> totalValue, totalCost |-> totalCost, gainLoss |-> gainLoss,
         gainLossPercent |-> IF totalCost # RZero
                             THEN RMul(RDiv(gainLoss, totalCost), RInt(100))
                             ELSE RZero]

\* Array.prototype.sort((a, b) => b.totalValue - a.totalValue), stable
ByTotalValueAsc(a, b) == RLess(a.totalValue, b.totalValue)
ByTotalValueDesc(a, b) == RLess(b.totalValue, a.totalValue)

RECURSIVE InsertByTotalValue(_, _)
InsertByTotalValue(sorted, x) ==
    IF sorted = <<>> THEN <<x>>
    ELSE IF ByTotalValueDesc(x, Head(sorted)) THEN <<x>> \o sorted
    ELSE <<Head(sorted)>> \o InsertByTotalValue(Tail(sorted), x)

RECURSIVE SortByTotalValue(_)
SortByTotalValue(seq) ==
    IF seq = <<>> THEN <<>>
    ELSE InsertByTotalValue(SortByTotalValue(SubSeq(seq, 1, Len(seq) - 1)), seq[Len(seq)])

getPositions(computations) ==
    LET kept == FilterHasShares(computations)
    IN  SortByTotalValue([i \in 1..Len(kept) |-> PositionOf(kept[i])])

StockOf(position) ==
    LET referencePrice == IF position.previousPrice # Undefined
                          THEN RInt(position.previousPrice[1])
                          ELSE position.avgCost
        change == RSub(RInt(position.currentPrice), referencePrice)
    IN  [symbol |-> position.symbol, name |-> position.name,
         price |-> position.currentPrice, change |-> change,
         changePercent |-> IF referencePrice # RZero
                           THEN RMul(RDiv(change, referencePrice), RInt(100))
                           ELSE RZero,
         \* Math.round of a whole number of shares
         volume |-> position.totalVolume]

\* Array.prototype.sort((a, b) => b.price - a.price), stable
ByPriceDesc(a, b) == b.price < a.price

RECURSIVE InsertByPrice(_, _)
InsertByPrice(sorted, x) ==
    IF sorted = <<>> THEN <<x>>
    ELSE IF ByPriceDesc(x, Head(sorted)) THEN <<x>> \o sorted
    ELSE <<Head(sorted)>> \o InsertByPrice(Tail(sorted), x)

RECURSIVE SortByPrice(_)
SortByPrice(seq) ==
    IF seq = <<>> THEN <<>>
    ELSE InsertByPrice(SortByPrice(SubSeq(seq, 1, Len(seq) - 1)), seq[Len(seq)])

getStocks(computations) ==
    LET kept == FilterHasShares(computations)
    IN  SortByPrice([i \in 1..Len(kept) |-> StockOf(kept[i])])

---------------------------------------------------------------------------
(* The TradeData rows the model feeds to computePositions *)

Row(symbol, tradeType, qty, price) ==
    [Symbol |-> symbol, TradeType |-> tradeType,
     StockShareQty |-> qty, StockTradePrice |-> price]

BUY == <<"B", "U", "Y">>
SELL == <<"S", "E", "L", "L">>
sell == <<"s", "e", "l", "l">>
SymA == <<"A">>
SymB == <<"B">>

Rows ==
    \* well-formed buys and sells of A
    { Row(SymA, BUY, Num(1), Num(p)) : p \in {1, 2} }
    \cup { Row(SymA, BUY, Num(2), Num(1)) }
    \cup { Row(SymA, SELL, Num(q), Num(2)) : q \in {1, 3} }
    \* rows the callback returns early on
    \cup { Row(SymA, BUY, Num(0), Num(1)), Row(SymA, BUY, Num(1), NotANumber),
           Row(SymA, SELL, Num(1), Num(0)), Row(<<" ">>, BUY, Num(1), Num(1)) }
    \* negative quantity, negative price
    \cup { Row(SymA, SELL, Num(-1), Num(1)), Row(SymA, BUY, Num(1), Num(-1)) }
    \* a second symbol, padded and in lower case
    \cup { Row(<<"B", " ">>, <<>>, Num(2), Num(1)), Row(SymB, sell, Num(1), Num(2)) }

\* spec section 8: buy 10 @ 100, buy 10 @ 120, sell 15 @ 150
ExampleLedger ==
    << Row(SymA, BUY, Num(10), Num(100)), Row(SymA, BUY, Num(10), Num(120)),
       Row(SymA, SELL, Num(15), Num(150)) >>

Ledgers == UNION { [1..n -> Rows] : n \in 0..MaxTrades } \cup { ExampleLedger }

---------------------------------------------------------------------------
(* computePositions as a state machine: one step per forEach callback *)

ReconInit ==
    /\ data \in Ledgers
    /\ idx = 0
    /\ positions = <<>>
    /\ last = NoCall
    /\ run = "first"
    /\ firstResult = <<>>

\* (data ?? []).forEach(callback), one element
ProcessTrade ==
    /\ run \in {"first", "second"}
    /\ idx < Len(data)
    /\ LET r == Callback(positions, data, idx + 1)
       IN  /\ positions' = r.positions
           /\ last' = r.locals
    /\ idx' = idx + 1
    /\ UNCHANGED <<data, run, firstResult, cacheVars, portfolioVars, agentVars, voiceVars>>

\* return Array.from(positions.entries()).map(...), first call
ReturnFirst ==
    /\ run = "first"
    /\ idx = Len(data)
    /\ firstResult' = Computations(positions)
    /\ run' = "returned"
    /\ UNCHANGED <<data, idx, positions, last, cacheVars, portfolioVars, agentVars, voiceVars>>

\* a second call of computePositions reading the same rows
CallAgain ==
    /\ run = "returned"
    /\ run' = "second"
    /\ idx' = 0
    /\ positions' = NewMap
    /\ last' = NoCall
    /\ UNCHANGED <<data, firstResult, cacheVars, portfolioVars, agentVars, voiceVars>>

ReconNext == ProcessTrade \/ ReturnFirst \/ CallAgain

\* a fresh call of computePositions over `array`, run to its end
RECURSIVE ReplayFrom(_, _, _)
ReplayFrom(m, array, index) ==
    IF index > Len(array) THEN m
    ELSE ReplayFrom(Callback(m, array, index).positions, array, index + 1)

Replay(array) == ReplayFrom(<<>>, array, 1)


---------------------------------------------------------------------------
(* The market-data proxy: getQuote / getBars over table market_data_cache *)

\* CACHE_DURATION, in minutes
CACHE_DURATION_quote == 1
CACHE_DURATION_bar == 60
CACHE_DURATION_snapshot == 1

\* Date.prototype.setMinutes(getMinutes() + m), on a clock in seconds
SecondsPerMinute == 60
AddMinutes(t, m) == t + m * SecondsPerMinute

Procs == {1, 2}
TickSteps == {30, 31, 3600}
\* the clock readings around the expiry of a quote
ShortSteps == {30, 31}
\* one clock reading before the expiry of a quote, one after it
HalfMinuteSteps == {31}

NoSymbol == ""
NoTimeframe == ""
NoStart == ""

\* AlpacaRequest bodies the model sends
Requests ==
    [action : {"quote"}, symbol : {"AAPL", NoSymbol}, timeframe : {NoTimeframe},
     start : {NoStart}]
    \cup [action : {"bars"}, symbol : {"AAPL"}, timeframe : {NoTimeframe, "1Hour"},
          start : {NoStart}]

\* the requests of the three kinds for one symbol
KindRequests ==
    [action : {"quote", "snapshot"}, symbol : {"AAPL"}, timeframe : {NoTimeframe},
     start : {NoStart}]
    \cup [action : {"bars"}, symbol : {"AAPL"}, timeframe : {NoTimeframe},
          start : {NoStart}]

\* requests that differ in the symbol, in the kind, in the timeframe, and
\* bars requests that differ in the start of the range only
KeyRequests ==
    [action : {"quote"}, symbol : {"AAPL", "MSFT"}, timeframe : {NoTimeframe},
     start : {NoStart}]
    \cup [action : {"bars"}, symbol : {"AAPL"}, timeframe : {"1Day"},
          start : {NoStart, "2024-01-01"}]
    \cup [action : {"bars"}, symbol : {"AAPL"}, timeframe : {"1Hour"},
          start : {NoStart}]

\* the one request overlapping calls are made with
SameRequests ==
    [action : {"quote"}, symbol : {"AAPL"}, timeframe : {NoTimeframe},
     start : {NoStart}]

\* timeframe: string = "1Day"
DefaultTimeframe(timeframe) == IF timeframe = NoTimeframe THEN "1Day" ELSE timeframe

\* the columns each select filters on
DataType(request) ==
    CASE request.action = "quote" -> "quote"
      [] request.action = "bars" -> "bar"
      [] OTHER -> request.action
RowTimeframe(request) ==
    IF request.action = "bars" THEN DefaultTimeframe(request.timeframe) ELSE NoTimeframe

\* what identifies the data a request asks for
Key(request) ==
    [symbol |-> request.symbol, data_type |-> DataType(request),
     timeframe |-> RowTimeframe(request)]

Keys == { Key(request) : request \in Requests \cup KindRequests \cup KeyRequests }

\* getQuote and getBars go through the table, getSnapshot does not
UsesCache(request) == request.action \in {"quote", "bars"}

Duration(request) ==
    IF request.action = "quote" THEN CACHE_DURATION_quote ELSE CACHE_DURATION_bar

\* .gt("expires_at", new Date().toISOString())
UnexpiredInclusive(row, t) == row.expires_at >= t
Unexpired(row, t) == row.expires_at > t

\* the select without the timeframe filter
MatchesAnyTimeframe(row, request) ==
    /\ row.symbol = request.symbol
    /\ row.data_type = DataType(request)
\* .eq("symbol", symbol).eq("data_type", ...)[.eq("timeframe", timeframe)]
Matches(row, request) ==
    /\ row.symbol = request.symbol
    /\ row.data_type = DataType(request)
    /\ request.action = "bars" => row.timeframe = RowTimeframe(request)

Selected(rows, request, t) ==
    { row \in rows : Matches(row, request) /\ Unexpired(row, t) }

\* .single(): the row when exactly one is selected, otherwise data is null
NoRow == <<>>
Single(rows) ==
    IF Cardinality(rows) = 1 THEN <<CHOOSE row \in rows : TRUE>> ELSE NoRow

\* what the provider answers to one request: an opaque JSON document
Payload(request, serial) ==
    [symbol |-> request.symbol, action |-> request.action,
     timeframe |-> RowTimeframe(request), start |-> request.start,
     serial |-> serial]

NoPayload ==
    [symbol |-> "", action |-> "", timeframe |-> "", start |-> "", serial |-> 0]

NoRequest == [action |-> "", symbol |-> "", timeframe |-> "", start |-> ""]

Idle ==
    [request |-> NoRequest, t0 |-> 0, stored |-> {}, hit |-> FALSE, fetches |-> 0,
     data |-> NoPayload, fetchedAt |-> 0, expiresAt |-> 0,
     status |-> 0, body |-> NoPayload]

\* no provider answer yet for any key
NeverFetched == [key \in Keys |-> -1]

NoHit == [at |-> -1, request |-> NoRequest, data |-> NoPayload]

CacheInit ==
    /\ now = 0
    /\ cache = {}
    /\ nextId = 1
    /\ pc = [p \in Procs |-> "idle"]
    /\ call = [p \in Procs |-> Idle]
    /\ nFetch = 0
    /\ ticks = 0
    /\ lastHit = NoHit
    /\ lastFetch = NeverFetched
    /\ purged = {}

\* every row the table holds for the request's key, expired or not
Stored(request) == { row \in cache : Matches(row, request) }

\* serve: parse the request, then getQuote / getBars up to the cache check,
\* getSnapshot up to its provider request
Get(p, request) ==
    /\ pc[p] = "idle"
    /\ IF request.symbol = NoSymbol
       THEN \* throw new Error("Symbol required ..."), caught by serve: status 500
            /\ pc' = [pc EXCEPT ![p] = "done"]
            /\ call' = [call EXCEPT ![p] =
                          [Idle EXCEPT !.request = request, !.t0 = now, !.status = 500]]
            /\ UNCHANGED lastHit
       ELSE LET cached == IF UsesCache(request)
                          THEN Single(Selected(cache, request, now)) ELSE NoRow
            IN  IF cached # NoRow
                THEN \* cache hit: return cached.data, status 200
                     /\ pc' = [pc EXCEPT ![p] = "done"]
                     /\ call' = [call EXCEPT ![p] =
                                   [Idle EXCEPT !.request = request, !.t0 = now,
                                                !.stored = Stored(request),
                                                !.hit = TRUE, !.status = 200,
                                                !.body = cached[1].data]]
                     /\ lastHit' = [at |-> now, request |-> request,
                                    data |-> cached[1].data]
                ELSE /\ pc' = [pc EXCEPT ![p] = "fetching"]
                     /\ call' = [call EXCEPT ![p] =
                                   [Idle EXCEPT !.request = request, !.t0 = now,
                                                !.stored = Stored(request)]]
                     /\ UNCHANGED lastHit
    /\ UNCHANGED <<now, cache, nextId, nFetch, ticks, lastFetch, purged,
                   reconVars, portfolioVars, agentVars, voiceVars>>

\* a call that finds another call's answer for the key in flight takes that
\* answer instead of asking the provider
FetchOkShared(p) ==
    /\ pc[p] = "fetching"
    /\ pc' = [pc EXCEPT ![p] = "inserting"]
    /\ IF \E q \in Procs \ {p} :
             call[q].request = call[p].request /\ call[q].data # NoPayload
       THEN /\ \E q \in Procs \ {p} :
                  /\ call[q].request = call[p].request
                  /\ call[q].data # NoPayload
                  /\ call' = [call EXCEPT
                                 ![p].data = call[q].data,
                                 ![p].fetchedAt = call[q].fetchedAt,
                                 ![p].expiresAt = call[q].expiresAt]
            /\ UNCHANGED <<nFetch, lastFetch>>
       ELSE /\ nFetch < MaxFetches
            /\ nFetch' = nFetch + 1
            /\ lastFetch' = [lastFetch EXCEPT ![Key(call[p].request)] = now]
            /\ call' = [call EXCEPT
                           ![p].fetches = @ + 1,
                           ![p].data = Payload(call[p].request, nFetch + 1),
                           ![p].fetchedAt = now,
                           ![p].expiresAt = AddMinutes(now, Duration(call[p].request))]
    /\ UNCHANGED <<now, cache, nextId, ticks, lastHit, purged,
                   reconVars, portfolioVars, agentVars, voiceVars>>
\* the provider answers ok: data = await response.json(); getQuote / getBars
\* go on with expiresAt = now + duration, getSnapshot returns the data
FetchOk(p) ==
    /\ pc[p] = "fetching"
    /\ nFetch < MaxFetches
    /\ nFetch' = nFetch + 1
    /\ lastFetch' = [lastFetch EXCEPT ![Key(call[p].request)] = now]
    /\ IF UsesCache(call[p].request)
       THEN /\ pc' = [pc EXCEPT ![p] = "inserting"]
            /\ call' = [call EXCEPT
                           ![p].fetches = @ + 1,
                           ![p].data = Payload(call[p].request, nFetch + 1),
                           ![p].fetchedAt = now,
                           ![p].expiresAt = AddMinutes(now, Duration(call[p].request))]
       ELSE /\ pc' = [pc EXCEPT ![p] = "done"]
            /\ call' = [call EXCEPT
                           ![p].fetches = @ + 1,
                           ![p].data = Payload(call[p].request, nFetch + 1),
                           ![p].fetchedAt = now,
                           ![p].status = 200,
                           ![p].body = Payload(call[p].request, nFetch + 1)]
    /\ UNCHANGED <<now, cache, nextId, ticks, lastHit, purged,
                   reconVars, portfolioVars, agentVars, voiceVars>>

\* the provider answers not ok: throw, caught by serve: status 500
FetchFailCachesError(p) ==
    /\ pc[p] = "fetching"
    /\ nFetch < MaxFetches
    /\ nFetch' = nFetch + 1
    /\ pc' = [pc EXCEPT ![p] = "done"]
    /\ call' = [call EXCEPT ![p].fetches = @ + 1, ![p].status = 500]
    /\ cache' = cache \cup
         {[id |-> nextId, symbol |-> call[p].request.symbol,
           data_type |-> DataType(call[p].request),
           timeframe |-> RowTimeframe(call[p].request),
           data |-> NoPayload, timestamp |-> now,
           expires_at |-> AddMinutes(now, Duration(call[p].request))]}
    /\ nextId' = nextId + 1
    /\ UNCHANGED <<now, ticks, lastHit, lastFetch, purged,
                   reconVars, portfolioVars, agentVars, voiceVars>>
FetchFail(p) ==
    /\ pc[p] = "fetching"
    /\ nFetch < MaxFetches
    /\ nFetch' = nFetch + 1
    /\ pc' = [pc EXCEPT ![p] = "done"]
    /\ call' = [call EXCEPT ![p].fetches = @ + 1, ![p].status = 500]
    /\ UNCHANGED <<now, cache, nextId, ticks, lastHit, lastFetch, purged,
                   reconVars, portfolioVars, agentVars, voiceVars>>

\* await supabase.from("market_data_cache").insert({...}); return data
InsertReplaces(p) ==
    /\ pc[p] = "inserting"
    /\ cache' = (cache \ Stored(call[p].request)) \cup
         {[id |-> nextId, symbol |-> call[p].request.symbol,
           data_type |-> DataType(call[p].request),
           timeframe |-> RowTimeframe(call[p].request),
           data |-> call[p].data, timestamp |-> call[p].fetchedAt,
           expires_at |-> call[p].expiresAt]}
    /\ nextId' = nextId + 1
    /\ pc' = [pc EXCEPT ![p] = "done"]
    /\ call' = [call EXCEPT ![p].status = 200, ![p].body = call[p].data]
    /\ UNCHANGED <<now, nFetch, ticks, lastHit, lastFetch, purged,
                   reconVars, portfolioVars, agentVars, voiceVars>>
Insert(p) ==
    /\ pc[p] = "inserting"
    /\ cache' = cache \cup
         {[id |-> nextId, symbol |-> call[p].request.symbol,
           data_type |-> DataType(call[p].request),
           timeframe |-> RowTimeframe(call[p].request),
           data |-> call[p].data, timestamp |-> call[p].fetchedAt,
           expires_at |-> call[p].expiresAt]}
    /\ nextId' = nextId + 1
    /\ pc' = [pc EXCEPT ![p] = "done"]
    /\ call' = [call EXCEPT ![p].status = 200, ![p].body = call[p].data]
    /\ UNCHANGED <<now, nFetch, ticks, lastHit, lastFetch, purged,
                   reconVars, portfolioVars, agentVars, voiceVars>>

\* the response has been sent; the next request may come
Finish(p) ==
    /\ pc[p] = "done"
    /\ pc' = [pc EXCEPT ![p] = "idle"]
    /\ call' = [call EXCEPT ![p] = Idle]
    /\ UNCHANGED <<now, cache, nextId, nFetch, ticks, lastHit, lastFetch, purged,
                   reconVars, portfolioVars, agentVars, voiceVars>>

\* the wall clock advances
Elapse(steps) ==
    /\ ticks < MaxTicks
    /\ \E d \in steps : now' = now + d
    /\ ticks' = ticks + 1
    /\ UNCHANGED <<cache, nextId, pc, call, nFetch, lastHit, lastFetch, purged,
                   reconVars, portfolioVars, agentVars, voiceVars>>

Tick == Elapse(TickSteps)

\* clean_expired_cache(): DELETE FROM market_data_cache WHERE expires_at < NOW()
ExpiredWithinAMinute(row, t) == row.expires_at < t + SecondsPerMinute
Expired(row, t) == row.expires_at < t

Purge ==
    /\ \E row \in cache : Expired(row, now)
    /\ cache' = { row \in cache : ~Expired(row, now) }
    /\ purged' = purged \cup { row \in cache : Expired(row, now) }
    /\ UNCHANGED <<now, nextId, pc, call, nFetch, ticks, lastHit, lastFetch,
                   reconVars, portfolioVars, agentVars, voiceVars>>

\* requests one at a time, with clean_expired_cache run at any point
PurgeNext ==
    \/ \E request \in Requests : Get(1, request)
    \/ FetchOk(1)
    \/ FetchFail(1)
    \/ Insert(1)
    \/ Finish(1)
    \/ Elapse(ShortSteps)
    \/ Purge

\* requests for several keys, one at a time
KeyNext ==
    \/ \E request \in KeyRequests : Get(1, request)
    \/ FetchOk(1)
    \/ FetchFail(1)
    \/ Insert(1)
    \/ Finish(1)
    \/ Elapse(HalfMinuteSteps)

\* calls for one key that may overlap
OverlapNext ==
    \/ \E p \in Procs, request \in SameRequests : Get(p, request)
    \/ \E p \in Procs : FetchOk(p)
    \/ \E p \in Procs : FetchFail(p)
    \/ \E p \in Procs : Insert(p)
    \/ \E p \in Procs : Finish(p)
    \/ Elapse(HalfMinuteSteps)

\* requests of the three kinds for one symbol, served one at a time
KindNext ==
    \/ \E request \in KindRequests : Get(1, request)
    \/ FetchOk(1)
    \/ FetchFail(1)
    \/ Insert(1)
    \/ Finish(1)
    \/ Tick

\* requests served one at a time: no two calls overlap
SeqNext ==
    \/ \E request \in Requests : Get(1, request)
    \/ FetchOk(1)
    \/ FetchFail(1)
    \/ Insert(1)
    \/ Finish(1)
    \/ Tick

---------------------------------------------------------------------------
(* getPortfolio: the two latest AccountBalance rows, then getPositions *)

ACCOUNT_CODE == "C40421"

MaxDays == 3

\* the 'Account Equity' values the model stores
Equities == { Num(0), Num(100000), Num(105000), NotANumber }

BalanceRow(account, date, equity) ==
    [AccountCode |-> account, Date |-> date, Account_Equity |-> equity,
     CashBalance |-> Num(1000), Stock_LMV |-> Num(2000), Options_LMV |-> NotANumber]

\* one row per account and day; the other account's row is the newest
BalanceKeys == ({ACCOUNT_CODE} \X (1..MaxDays)) \cup {<<"LS123456", MaxDays + 1>>}

BalanceTables ==
    UNION { { { BalanceRow(k[1], k[2], equity[k]) : k \in keys } :
              equity \in [keys -> Equities] } : keys \in SUBSET BalanceKeys }

\* the rows computePositions reads when getPortfolio calls getPositions
PortfolioLedgers ==
    { <<>>, <<Row(SymA, BUY, Num(2), Num(1))>>, ExampleLedger }

\* what a query resolves to: { data, error }, with data ?? [] applied
QueryOutcomes == {"rows", "null", "error"}
Resolve(outcome, rows) ==
    [error |-> outcome = "error", data |-> IF outcome = "rows" THEN rows ELSE <<>>]

\* if (error) { throw new Error(...) }
IgnoresError(response) == FALSE
Throws(response) == response.error

\* .eq('AccountCode', ACCOUNT_CODE)
AnyAccount(table) == table
OwnRows(table) == { row \in table : row.AccountCode = ACCOUNT_CODE }

\* .order('Date', { ascending: false })
RECURSIVE OrderByDateDesc(_)
OrderByDateDesc(rows) ==
    IF rows = {} THEN <<>>
    ELSE LET newest == CHOOSE row \in rows : \A other \in rows : other.Date <= row.Date
         IN  <<newest>> \o OrderByDateDesc(rows \ {newest})

\* .limit(n)
Limit(seq, n) == SubSeq(seq, 1, IF Len(seq) < n THEN Len(seq) ELSE n)

SelectBalances(table) == Limit(OrderByDateDesc(OwnRows(table)), 2)

\* const previousValue = previous ? toNumber(previous['Account Equity']) : totalValue
PreviousValueOrZero(previous, totalValue) ==
    IF previous # Undefined THEN toNumber(previous[1].Account_Equity) ELSE 0
PreviousValue(previous, totalValue) ==
    IF previous # Undefined THEN toNumber(previous[1].Account_Equity) ELSE totalValue

\* JavaScript's non-finite results of a division by zero
NaN == <<0, 0>>
Infinity == <<1, 0>>
MinusInfinity == <<-1, 0>>
IsFinite(x) == x[2] # 0

\* previousValue !== 0 ? (dayChange / previousValue) * 100 : 0
DayChangePercentUnguarded(dayChange, previousValue) ==
    IF previousValue # 0
    THEN RMul(RDiv(RInt(dayChange), RInt(previousValue)), RInt(100))
    ELSE IF dayChange = 0 THEN NaN
    ELSE IF dayChange > 0 THEN Infinity ELSE MinusInfinity
DayChangePercent(dayChange, previousValue) ==
    IF previousValue # 0
    THEN RMul(RDiv(RInt(dayChange), RInt(previousValue)), RInt(100))
    ELSE RZero

NoFigures ==
    [totalValue |-> 0, previousValue |-> 0, dayChange |-> 0,
     dayChangePercent |-> RZero, totalCash |-> 0, totalInvested |-> 0]

\* lines 80-85
Figures(latest, previous) ==
    LET totalValue == toNumber(latest.Account_Equity)
        previousValue == PreviousValue(previous, totalValue)
        dayChange == totalValue - previousValue
    IN  [totalValue |-> totalValue, previousValue |-> previousValue,
         dayChange |-> dayChange,
         dayChangePercent |-> DayChangePercent(dayChange, previousValue),
         totalCash |-> toNumber(latest.CashBalance),
         totalInvested |-> toNumber(latest.Stock_LMV) + toNumber(latest.Options_LMV)]

\* the Portfolio object of the return statement
PortfolioOf(figures, positionList) ==
    [totalValue |-> figures.totalValue, dayChange |-> figures.dayChange,
     dayChangePercent |-> figures.dayChangePercent,
     totalCash |-> figures.totalCash, totalInvested |-> figures.totalInvested,
     positions |-> positionList]

FailedToFetchPortfolio == "Failed to fetch portfolio data"
NoBalanceData == "No account balance data found for the specified account."
FailedToFetchPositions == "Failed to fetch positions"

NoPortfolioCall ==
    [balanceRead |-> "", tradesRead |-> "", latest |-> Undefined,
     previous |-> Undefined, figures |-> NoFigures, returned |-> Undefined,
     error |-> ""]

IdlePortfolio ==
    /\ balances = {}
    /\ pfpc = "idle"
    /\ portfolio = NoPortfolioCall

PortfolioInit ==
    /\ balances \in BalanceTables
    /\ pfpc = "start"
    /\ portfolio = NoPortfolioCall
    /\ data \in PortfolioLedgers
    /\ idx = 0
    /\ positions = <<>>
    /\ last = NoCall
    /\ run = "first"
    /\ firstResult = <<>>

\* getPortfolio up to `await this.getPositions()`
ReadBalances ==
    /\ pfpc = "start"
    /\ \E outcome \in QueryOutcomes :
         LET response == Resolve(outcome, SelectBalances(balances))
             latest == IF Len(response.data) >= 1 THEN Some(response.data[1])
                       ELSE Undefined
             previous == IF Len(response.data) >= 2 THEN Some(response.data[2])
                         ELSE Undefined
             read == [portfolio EXCEPT !.balanceRead = outcome,
                                       !.latest = latest, !.previous = previous]
         IN  IF Throws(response)
             THEN /\ pfpc' = "threw"
                  /\ portfolio' = [portfolio EXCEPT !.balanceRead = outcome,
                                                    !.error = FailedToFetchPortfolio]
             ELSE IF latest = Undefined
             THEN /\ pfpc' = "threw"
                  /\ portfolio' = [read EXCEPT !.error = NoBalanceData]
             ELSE /\ pfpc' = "positions"
                  /\ portfolio' = [read EXCEPT !.figures = Figures(latest[1], previous)]
    /\ UNCHANGED <<balances, reconVars, cacheVars, agentVars, voiceVars>>

\* await this.getPositions(): computePositions reads the trades and throws on
\* an error, getPositions filters, maps and sorts; then the return statement
GetPositions ==
    /\ pfpc = "positions"
    /\ \E outcome \in QueryOutcomes :
         LET response == Resolve(outcome, data)
         IN  IF Throws(response)
             THEN /\ pfpc' = "threw"
                  /\ portfolio' = [portfolio EXCEPT !.tradesRead = outcome,
                                                    !.error = FailedToFetchPositions]
             ELSE /\ pfpc' = "returned"
                  /\ portfolio' =
                       [portfolio EXCEPT
                          !.tradesRead = outcome,
                          !.returned =
                             Some(PortfolioOf(portfolio.figures,
                                              getPositions(Computations(
                                                  Replay(response.data)))))]
    /\ UNCHANGED <<balances, reconVars, cacheVars, agentVars, voiceVars>>

PortfolioNext == ReadBalances \/ GetPositions

---------------------------------------------------------------------------
(* agent-query: processQuery *)

MaxQueries == 2

\* the intents the classifier is told to choose from, something else, and a
\* reply without an intent
SqlIntents == {"trade_history", "account_balance", "fees_commissions"}
UndefinedIntent == "undefined"
Intents ==
    SqlIntents \cup {"market_data", "order_management", "unknown", UndefinedIntent}

\* the entity bag of the reply: an object, no bag, something that is no object
UndefinedEntities == "undefined"
EntityBags == {"{symbol, date_range}", UndefinedEntities, "not an object"}

NoAccount == ""
NoSession == ""
AgentRequests == [account_code : {NoAccount, ACCOUNT_CODE}, session_id : {NoSession, "s1"}]

\* account_code || "LS123456", .limit(10)
DEFAULT_ACCOUNT == "LS123456"
FALLBACK_LIMIT == 10

TableRow(table, id, account) ==
    [table |-> table, id |-> id, account_code |-> account, message |-> ""]
MessageRow(message) ==
    [table |-> "", id |-> 0, account_code |-> "", message |-> message]

\* the rows of trade_data, acct_balances and acct_fees
TableRows(table) ==
    CASE table = "trade_data" ->
           { TableRow(table, id, DEFAULT_ACCOUNT) : id \in 1..(FALLBACK_LIMIT + 1) }
           \cup { TableRow(table, id, ACCOUNT_CODE) :
                    id \in (FALLBACK_LIMIT + 2)..(FALLBACK_LIMIT + 3) }
      [] table = "acct_balances" ->
           { TableRow(table, 1, DEFAULT_ACCOUNT), TableRow(table, 2, ACCOUNT_CODE) }
      [] OTHER -> { TableRow(table, 1, ACCOUNT_CODE) }

\* intent === "trade_history" ? "trade_data" :
\*   intent === "account_balance" ? "acct_balances" : "acct_fees"
TableNameAlwaysTrades(intent) == "trade_data"
TableName(intent) ==
    IF intent = "trade_history" THEN "trade_data"
    ELSE IF intent = "account_balance" THEN "acct_balances" ELSE "acct_fees"

\* .eq("account_code", account_code || "LS123456")
AccountRows(table, account_code) ==
    { row \in TableRows(table) :
        row.account_code = IF account_code # NoAccount THEN account_code
                           ELSE DEFAULT_ACCOUNT }

\* .limit(n) on a select without an order: any n of the rows
LimitedSets(rows, n) ==
    IF Cardinality(rows) <= n THEN {rows}
    ELSE { some \in SUBSET rows : Cardinality(some) = n }

\* what execute_sql may return for the generated query: nothing, or the
\* account's rows of the intent's table
QueryResults(intent, account_code) ==
    { {}, AccountRows(TableName(intent), account_code) }

\* the first branch of the if on intent
AnyIntentIsSql(intent) == TRUE
IsSqlIntent(intent) == intent \in SqlIntents

\* the else-if branches: placeholders for market_data and order_management
PlaceholderData(intent) ==
    IF intent = "market_data"
    THEN { MessageRow("Market data integration coming soon") }
    ELSE IF intent = "order_management"
    THEN { MessageRow("Order management integration coming soon") }
    ELSE {}

\* generateSQL / formatResponse: the model's reply, a function of the prompt
NoSql == [intent |-> "", entities |-> "", account |-> ""]
GeneratedSql(intent, entities, account_code) ==
    [intent |-> intent, entities |-> entities, account |-> account_code]

NoResponse == [intent |-> "", data |-> {}]
FormattedResponse(rows, intent) == [intent |-> intent, data |-> rows]

\* the AgentResponse of the return statement
NoResult == [response |-> NoResponse, intent |-> "", data |-> {}, sql_query |-> NoSql]
AgentResponse(response, intent, rows, sqlQuery) ==
    [response |-> response, intent |-> intent, data |-> rows, sql_query |-> sqlQuery]

NoAgentRequest == [account_code |-> "", session_id |-> ""]

NoAgentCall ==
    [request |-> NoAgentRequest, intent |-> "", entities |-> "",
     sqlQuery |-> NoSql, sqlError |-> FALSE, usedFallback |-> FALSE,
     reads |-> {}, data |-> {}, result |-> NoResult, error |-> ""]

NoAnswer == [known |-> FALSE, usedFallback |-> FALSE, result |-> NoResult]

IdleAgent ==
    /\ agpc = "idle"
    /\ ag = NoAgentCall
    /\ answers = 0
    /\ firstAnswer = NoAnswer
    /\ conversation_history = <<>>

\* serve: a request arrives, processQuery begins
Ask(request) ==
    /\ agpc = "idle"
    /\ answers < MaxQueries
    /\ agpc' = "classify"
    /\ ag' = [NoAgentCall EXCEPT !.request = request]
    /\ UNCHANGED <<answers, firstAnswer, conversation_history,
                   reconVars, cacheVars, portfolioVars, voiceVars>>

\* an awaited call rejects: caught, logged and thrown again; serve answers 500
Fail(step) ==
    /\ agpc = step
    /\ agpc' = "failed"
    /\ ag' = [ag EXCEPT !.error = step]
    /\ answers' = answers + 1
    /\ UNCHANGED <<firstAnswer, conversation_history,
                   reconVars, cacheVars, portfolioVars, voiceVars>>

\* const { intent, entities } = await classifyIntent(query); then the
\* branches that need no further call
Classify ==
    /\ agpc = "classify"
    /\ \E intent \in Intents, entities \in EntityBags :
         /\ agpc' = IF IsSqlIntent(intent) THEN "generate" ELSE "format"
         /\ ag' = [ag EXCEPT !.intent = intent, !.entities = entities,
                             !.data = IF IsSqlIntent(intent) THEN {}
                                      ELSE PlaceholderData(intent)]
    /\ UNCHANGED <<answers, firstAnswer, conversation_history,
                   reconVars, cacheVars, portfolioVars, voiceVars>>

\* sqlQuery = await generateSQL(query, intent, entities, account_code)
GenerateSql ==
    /\ agpc = "generate"
    /\ agpc' = "execute"
    /\ ag' = [ag EXCEPT !.sqlQuery =
                 GeneratedSql(ag.intent, ag.entities, ag.request.account_code)]
    /\ UNCHANGED <<answers, firstAnswer, conversation_history,
                   reconVars, cacheVars, portfolioVars, voiceVars>>

\* await supabase.rpc("execute_sql", ...): data = queryData || [], or an error
ExecuteSql ==
    /\ agpc = "execute"
    /\ \/ /\ agpc' = "fallback"
          /\ ag' = [ag EXCEPT !.sqlError = TRUE]
       \/ \E queryData \in QueryResults(ag.intent, ag.request.account_code) :
            /\ agpc' = "format"
            /\ ag' = [ag EXCEPT !.data = queryData]
    /\ UNCHANGED <<answers, firstAnswer, conversation_history,
                   reconVars, cacheVars, portfolioVars, voiceVars>>

\* the direct query of the error branch, when it resolves without an error:
\* data = fallbackData || []
Fallback ==
    /\ agpc = "fallback"
    /\ LET tableName == TableName(ag.intent)
       IN  \E fallbackData \in
                LimitedSets(AccountRows(tableName, ag.request.account_code),
                            FALLBACK_LIMIT) \cup {{}} :
             ag' = [ag EXCEPT !.usedFallback = TRUE,
                              !.reads = @ \cup {tableName},
                              !.data = fallbackData]
    /\ agpc' = "format"
    /\ UNCHANGED <<answers, firstAnswer, conversation_history,
                   reconVars, cacheVars, portfolioVars, voiceVars>>

\* the two inserts into conversation_history, when there is a session_id
Saved(history, request) ==
    IF request.session_id # NoSession
    THEN history \o << [session_id |-> request.session_id, role |-> "user"],
                       [session_id |-> request.session_id, role |-> "assistant"] >>
    ELSE history

\* response = await formatResponse(query, data, intent); the conversation is
\* saved; return { response, intent, data, sql_query: sqlQuery }
FormatAndReturn ==
    /\ agpc = "format"
    /\ agpc' = "returned"
    /\ LET result == AgentResponse(FormattedResponse(ag.data, ag.intent),
                                   ag.intent, ag.data, ag.sqlQuery)
       IN  /\ ag' = [ag EXCEPT !.result = result]
           /\ firstAnswer' = IF firstAnswer.known THEN firstAnswer
                             ELSE [known |-> TRUE, usedFallback |-> ag.usedFallback,
                                   result |-> result]
    /\ conversation_history' = Saved(conversation_history, ag.request)
    /\ answers' = answers + 1
    /\ UNCHANGED <<reconVars, cacheVars, portfolioVars, voiceVars>>

\* the response has been sent
AgentDone ==
    /\ agpc \in {"returned", "failed"}
    /\ agpc' = "idle"
    /\ ag' = NoAgentCall
    /\ UNCHANGED <<answers, firstAnswer, conversation_history,
                   reconVars, cacheVars, portfolioVars, voiceVars>>

AgentSteps == {"classify", "generate", "fallback", "format"}

AgentNext ==
    \/ \E request \in AgentRequests : Ask(request)
    \/ Classify
    \/ GenerateSql
    \/ ExecuteSql
    \/ Fallback
    \/ FormatAndReturn
    \/ \E step \in AgentSteps : Fail(step)
    \/ AgentDone

---------------------------------------------------------------------------
(* ElevenLabsAgentService: sessions and playback of the agent's audio *)

MaxChunks == 3
MaxConnects == 2

\* this.ws is "null", or a socket that is "connecting", "open" or "closed"

\* what became of a chunk of agent audio (heard[c].fate)
\*   queued      in this.audioQueue
\*   dropped     removed from the queue by an interruption or by cleanup
\*   decoding    taken by processAudioQueue, decodeAudioData not yet settled
\*   undecodable decodeAudioData rejected the bytes
\*   playing     source.start(0) has run, onended has not
\*   ended       onended has run
\*   cut         the context was closed while the chunk was playing
\*   closed      the chunk was handed to a context that is closed

\* chunks are numbered in the order of receipt
ChunkIds == 1..MaxChunks
Chunks == 1..Len(heard)
Decoding == { c \in Chunks : heard[c].fate = "decoding" }
Playing == { c \in Chunks : heard[c].fate = "playing" }

\* constructor, in a browser: this.audioContext = new AudioContextClass();
\* the field initialisers for the rest
VoiceInit ==
    /\ ws = "null"
    /\ audioContext = "running"
    /\ audioQueue = <<>>
    /\ isProcessingAudio = FALSE
    /\ pendingClose = 0
    /\ heard = <<>>
    /\ started = <<>>
    /\ connects = 0
    /\ disconnected = FALSE
    /\ interrupted = FALSE

\* the fates after this.audioQueue = []
Drop(h) ==
    [c \in DOMAIN h |-> IF h[c].fate = "queued" THEN [h[c] EXCEPT !.fate = "dropped"]
                        ELSE h[c]]

\* the fates after this.audioContext.close(): what is playing falls silent
\* and its onended does not run
Silence(h) ==
    [c \in DOMAIN h |-> IF h[c].fate = "playing" THEN [h[c] EXCEPT !.fate = "cut"]
                        ELSE h[c]]

\* cleanup(): stopListening() (the microphone is never started here, so it
\* only sends audio_end), audioQueue = [], isProcessingAudio = false,
\* conversationId = null, audioContext.close() unless already closed
cleanup ==
    /\ audioQueue' = <<>>
    /\ isProcessingAudio' = FALSE
    /\ audioContext' = "closed"
    /\ heard' = Silence(Drop(heard))

\* processAudioQueue() up to its first await: with nothing queued the flag
\* is cleared, otherwise the flag is set and the head of the queue goes to
\* decodeAudioData
processAudioQueue(queue, h) ==
    IF Len(queue) = 0
    THEN [audioQueue |-> queue, isProcessingAudio |-> FALSE, heard |-> h]
    ELSE [audioQueue |-> Tail(queue), isProcessingAudio |-> TRUE,
          heard |-> [h EXCEPT ![Head(queue)].fate = "decoding"]]

\* connect(): this.ws = new WebSocket(...); made when no socket is in use
Connect ==
    /\ ws \in {"null", "closed"}
    /\ connects < MaxConnects
    /\ connects' = connects + 1
    /\ ws' = "connecting"
    /\ UNCHANGED <<audioContext, audioQueue, isProcessingAudio, pendingClose,
                   heard, started, disconnected, interrupted,
                   reconVars, cacheVars, portfolioVars, agentVars>>

\* ws.onopen: the initiation message is sent, connect() resolves
Open ==
    /\ ws = "connecting"
    /\ ws' = "open"
    /\ UNCHANGED <<audioContext, audioQueue, isProcessingAudio, pendingClose,
                   heard, started, connects, disconnected, interrupted,
                   reconVars, cacheVars, portfolioVars, agentVars>>

\* ws.onerror then ws.onclose of a socket that could not connect, or
\* ws.onclose of an open socket the other side closed: cleanup()
SocketClosed ==
    /\ ws \in {"connecting", "open"}
    /\ ws' = "closed"
    /\ cleanup
    /\ UNCHANGED <<pendingClose, started, connects, disconnected, interrupted,
                   reconVars, cacheVars, portfolioVars, agentVars>>

\* disconnect(): if (this.ws) { this.ws.close(); this.ws = null }; cleanup().
\* The close event of a socket that was not closed yet comes later.
Disconnect ==
    /\ ws' = "null"
    /\ pendingClose' = IF ws \in {"connecting", "open"} THEN pendingClose + 1
                       ELSE pendingClose
    /\ cleanup
    /\ disconnected' = TRUE
    /\ UNCHANGED <<started, connects, interrupted,
                   reconVars, cacheVars, portfolioVars, agentVars>>

\* ws.onclose of a socket that disconnect() closed: cleanup() on the service
LateClose ==
    /\ pendingClose > 0
    /\ pendingClose' = pendingClose - 1
    /\ cleanup
    /\ UNCHANGED <<ws, started, connects, disconnected, interrupted,
                   reconVars, cacheVars, portfolioVars, agentVars>>

\* handleMessage, case 'audio' with data.audio: push, and start processing
\* unless the flag says it is going on
ReceiveAudio ==
    /\ ws = "open"
    /\ Len(heard) < MaxChunks
    /\ LET chunk == Len(heard) + 1
           h == Append(heard, [reconnected |-> disconnected, fate |-> "queued"])
           queue == Append(audioQueue, chunk)
           next == IF isProcessingAudio
                   THEN [audioQueue |-> queue, isProcessingAudio |-> TRUE, heard |-> h]
                   ELSE processAudioQueue(queue, h)
       IN  /\ audioQueue' = next.audioQueue
           /\ isProcessingAudio' = next.isProcessingAudio
           /\ heard' = next.heard
    /\ UNCHANGED <<ws, audioContext, pendingClose, started, connects,
                   disconnected, interrupted,
                   reconVars, cacheVars, portfolioVars, agentVars>>

\* handleMessage, case 'interruption': audioQueue = [], isProcessingAudio = false
ReceiveInterruption ==
    /\ ws = "open"
    /\ audioQueue' = <<>>
    /\ isProcessingAudio' = FALSE
    /\ heard' = Drop(heard)
    /\ interrupted' = TRUE
    /\ UNCHANGED <<ws, audioContext, pendingClose, started, connects, disconnected,
                   reconVars, cacheVars, portfolioVars, agentVars>>

\* interrupt(): the message is sent if the socket is open, then the same
interrupt ==
    /\ audioQueue' = <<>>
    /\ isProcessingAudio' = FALSE
    /\ heard' = Drop(heard)
    /\ interrupted' = TRUE
    /\ UNCHANGED <<ws, audioContext, pendingClose, started, connects, disconnected,
                   reconVars, cacheVars, portfolioVars, agentVars>>

\* processAudioQueue after decodeAudioData resolved on a running context:
\* source.start(0), without a look at the flag or at what is playing
Start(c) ==
    /\ c \in Decoding
    /\ audioContext = "running"
    /\ heard' = [heard EXCEPT ![c].fate = "playing"]
    /\ started' = Append(started, c)
    /\ UNCHANGED <<ws, audioContext, audioQueue, isProcessingAudio, pendingClose,
                   connects, disconnected, interrupted,
                   reconVars, cacheVars, portfolioVars, agentVars>>

\* the catch block: isProcessingAudio = false; this.processAudioQueue()
Caught(c, fate) ==
    LET next == processAudioQueue(audioQueue, [heard EXCEPT ![c].fate = fate])
    IN  /\ audioQueue' = next.audioQueue
        /\ isProcessingAudio' = next.isProcessingAudio
        /\ heard' = next.heard

\* decodeAudioData rejects the bytes
DecodeFails(c) ==
    /\ c \in Decoding
    /\ audioContext = "running"
    /\ Caught(c, "undecodable")
    /\ UNCHANGED <<ws, audioContext, pendingClose, started, connects,
                   disconnected, interrupted,
                   reconVars, cacheVars, portfolioVars, agentVars>>

\* the chunk meets a closed context.  What a closed context does with
\* decodeAudioData, createBufferSource and start differs between browsers:
\* one of the calls throws InvalidStateError and the catch block runs ...
ClosedContextThrows(c) ==
    /\ c \in Decoding
    /\ audioContext = "closed"
    /\ Caught(c, "closed")
    /\ UNCHANGED <<ws, audioContext, pendingClose, started, connects,
                   disconnected, interrupted,
                   reconVars, cacheVars, portfolioVars, agentVars>>

\* ... or none throws, nothing is rendered and onended never runs
ClosedContextSilent(c) ==
    /\ c \in Decoding
    /\ audioContext = "closed"
    /\ heard' = [heard EXCEPT ![c].fate = "closed"]
    /\ UNCHANGED <<ws, audioContext, audioQueue, isProcessingAudio, pendingClose,
                   started, connects, disconnected, interrupted,
                   reconVars, cacheVars, portfolioVars, agentVars>>

\* source.onended: this.processAudioQueue()
Ended(c) ==
    /\ c \in Playing
    /\ LET next == processAudioQueue(audioQueue, [heard EXCEPT ![c].fate = "ended"])
       IN  /\ audioQueue' = next.audioQueue
           /\ isProcessingAudio' = next.isProcessingAudio
           /\ heard' = next.heard
    /\ UNCHANGED <<ws, audioContext, pendingClose, started, connects,
                   disconnected, interrupted,
                   reconVars, cacheVars, portfolioVars, agentVars>>

VoiceNext ==
    \/ Connect
    \/ Open
    \/ SocketClosed
    \/ Disconnect
    \/ LateClose
    \/ ReceiveAudio
    \/ ReceiveInterruption
    \/ interrupt
    \/ \E c \in ChunkIds : Start(c)
    \/ \E c \in ChunkIds : DecodeFails(c)
    \/ \E c \in ChunkIds : ClosedContextThrows(c)
    \/ \E c \in ChunkIds : ClosedContextSilent(c)
    \/ \E c \in ChunkIds : Ended(c)

---------------------------------------------------------------------------
(* Specifications *)

IdleProxy == CacheInit

NoLedger ==
    /\ data = <<>>
    /\ idx = 0
    /\ positions = <<>>
    /\ last = NoCall
    /\ run = "first"
    /\ firstResult = <<>>

InitRecon == ReconInit /\ IdleProxy /\ IdlePortfolio /\ IdleAgent /\ VoiceInit
InitCache == NoLedger /\ CacheInit /\ IdlePortfolio /\ IdleAgent /\ VoiceInit
InitPortfolio == PortfolioInit /\ IdleProxy /\ IdleAgent /\ VoiceInit
InitAgent == NoLedger /\ IdleProxy /\ IdlePortfolio /\ IdleAgent /\ VoiceInit
InitVoice == NoLedger /\ IdleProxy /\ IdlePortfolio /\ IdleAgent /\ VoiceInit

\* computePositions over every ledger of Ledgers, called twice
SpecRecon == InitRecon /\ [][ReconNext]_vars

\* the proxy serving one request at a time
SpecCacheSeq == InitCache /\ [][SeqNext]_vars

\* the proxy serving one request at a time while the table is purged
SpecCachePurge == InitCache /\ [][PurgeNext]_vars

\* the proxy serving requests for several keys
SpecCacheKeys == InitCache /\ [][KeyNext]_vars

\* the proxy serving calls for one key that overlap
SpecCacheOverlap == InitCache /\ [][OverlapNext]_vars

\* the proxy serving quote, bars and snapshot requests for one symbol
SpecProxyKinds == InitCache /\ [][KindNext]_vars

\* one call of getPortfolio over every balance table of BalanceTables
SpecPortfolio == InitPortfolio /\ [][PortfolioNext]_vars

\* processQuery, one request after the other
SpecAgent == InitAgent /\ [][AgentNext]_vars

\* the voice agent service: sessions, agent audio, interruptions
SpecVoice == InitVoice /\ [][VoiceNext]_vars

---------------------------------------------------------------------------
(* Reconstruction of an array from scratch, for stating the claims *)

Without(array, j) == SubSeq(array, 1, j - 1) \o SubSeq(array, j + 1, Len(array))

Processed == SubSeq(data, 1, idx)

Held(m, symbol) == IF MapHas(m, symbol) THEN MapGet(m, symbol).shares ELSE 0

\* some row before the current one was a non-skipped trade of `symbol`
TradedEarlier(symbol) ==
    \E j \in 1..(idx - 1) : ~Skipped(data[j]) /\ trim(data[j].Symbol) = symbol

---------------------------------------------------------------------------
(* C1 *)

\* C1 (as claimed): after each processed trade every symbol's state has
\* shares >= 0 and cost basis >= 0.  Violated: a buy at a negative price is
\* not skipped and adds a negative amount to costBasis.
C1_NonNegativeState ==
    \A i \in 1..Len(positions) :
        /\ positions[i].value.shares >= 0
        /\ RLeq(RZero, positions[i].value.costBasis)

---------------------------------------------------------------------------
(* C2 *)

Oversell == ~last.skipped /\ last.isSell /\ last.qty > last.before.shares

\* C2: a sell of more than the holdings reduces the cost basis by exactly
\* holdings x pre-trade average cost (not by quantity x average cost), and
\* leaves the symbol with no shares: it is dropped from the map, so that the
\* next trade of the symbol starts from the fresh record.
C2_OversellClamped ==
    Oversell =>
        /\ last.reductionQty = last.before.shares
        /\ last.costReduction = RMul(RInt(last.before.shares), last.before.avgCost)
        /\ last.record.costBasis = RSub(last.before.costBasis, last.costReduction)
        /\ Held(positions, last.symbol) = 0
        /\ ~MapHas(positions, last.symbol)

C2_Witness == Oversell /\ last.before.shares = 2 /\ last.qty = 3

---------------------------------------------------------------------------
(* C3 *)

Rebuy ==
    /\ ~last.skipped
    /\ ~last.isSell
    /\ TradedEarlier(last.symbol)
    /\ Held(Replay(SubSeq(data, 1, idx - 1)), last.symbol) = 0

\* C3: a buy of q at p for a symbol that was traded before and is flat gives
\* shares = q, cost basis = q x p and average cost = p.
C3_FreshAfterFlat ==
    Rebuy =>
        /\ MapHas(positions, last.symbol)
        /\ MapGet(positions, last.symbol).shares = last.qty
        /\ MapGet(positions, last.symbol).costBasis = RInt(last.qty * last.price)
        /\ MapGet(positions, last.symbol).avgCost = RInt(last.price)

C3_Witness ==
    /\ Rebuy
    /\ idx = 3
    /\ data[1] = Row(SymA, BUY, Num(2), Num(1))
    /\ data[2] = Row(SymA, SELL, Num(3), Num(2))
    /\ data[3] = Row(SymA, BUY, Num(1), Num(2))
    /\ last.symbol = SymA
    /\ last.price = 2

---------------------------------------------------------------------------
(* C4 *)

NonFinite(value) == value.k # "num"
NonPositiveQuantity(trade) ==
    trade.StockShareQty.k = "num" /\ trade.StockShareQty.v <= 0
ZeroQuantity(trade) == toNumber(trade.StockShareQty) = 0

\* C4 (as claimed): a processed row with non-positive quantity or non-finite
\* price leaves the state as if the row were not in the ledger.  Violated:
\* a negative quantity is not skipped, Math.abs makes it a trade.
C4_NonPositiveSkipped ==
    \A j \in 1..idx :
        (NonPositiveQuantity(data[j]) \/ NonFinite(data[j].StockTradePrice))
            => positions = Replay(Without(Processed, j))

\* C4 (amended): a processed row whose quantity is zero (or not a finite
\* number) or whose price is not a finite number leaves the state of every
\* symbol as if the row were not in the ledger.
C4_ZeroSkipped ==
    \A j \in 1..idx :
        (ZeroQuantity(data[j]) \/ NonFinite(data[j].StockTradePrice))
            => positions = Replay(Without(Processed, j))

C4_Witness ==
    /\ idx = 3
    /\ ~Skipped(data[1])
    /\ ZeroQuantity(data[2])
    /\ NonFinite(data[3].StockTradePrice)
    /\ positions # <<>>

---------------------------------------------------------------------------
(* C5 *)

SellWithinHoldings ==
    ~last.skipped /\ last.isSell /\ last.qty <= last.before.shares

\* C5 (as claimed): a sell of q <= holdings reduces the cost basis by
\* q x pre-trade average cost and leaves the average cost of the remaining
\* shares unchanged; the example ledger ends with 5 shares and cost basis 550
\* from an average cost of 110.  Violated where C1's negative cost basis is
\* reached: Math.max(0, ...) then replaces the reduced cost basis by 0.
C5_SellAtAverageCost ==
    /\ SellWithinHoldings =>
          /\ last.record.costBasis =
                 RSub(last.before.costBasis, RMul(RInt(last.qty), last.before.avgCost))
          /\ MapHas(positions, last.symbol) =>
                 MapGet(positions, last.symbol).avgCost = last.before.avgCost
    /\ (data = ExampleLedger /\ idx = 3) =>
          /\ last.before.avgCost = RInt(110)
          /\ MapGet(positions, SymA).shares = 5
          /\ MapGet(positions, SymA).costBasis = RInt(550)

---------------------------------------------------------------------------
(* C6 *)

Symbols(seq) == { seq[i].symbol : i \in 1..Len(seq) }

\* C6: every element computePositions returns has shares > 0, getPositions
\* and getStocks report exactly those symbols, and a symbol whose last trade
\* left it without shares is in none of the three.
C6_OnlyHeldReported ==
    LET computations == Computations(positions)
        reported == getPositions(computations)
    IN  /\ \A i \in 1..Len(computations) : computations[i].shares > 0
        /\ \A i \in 1..Len(reported) : reported[i].shares > 0
        /\ Symbols(reported) = Symbols(computations)
        /\ Symbols(getStocks(computations)) = Symbols(computations)
        /\ (~last.skipped /\ last.record.shares <= 0) =>
               last.symbol \notin Symbols(computations)

C6_Witness ==
    /\ idx = Len(data)
    /\ ~last.skipped
    /\ last.before.shares > 0
    /\ last.record.shares = 0
    /\ positions # <<>>

---------------------------------------------------------------------------
(* C7 *)

\* C7: after the first idx rows of the ledger the map equals the one a
\* reconstruction of those idx rows alone ends with.
C7_PrefixConsistent == positions = Replay(Processed)

C7_Witness ==
    /\ idx = 2
    /\ Len(data) = 3
    /\ ~Skipped(data[2])
    /\ ~Skipped(data[3])
    /\ data[3] # data[2]
    /\ positions # <<>>

---------------------------------------------------------------------------
(* C8 *)

\* C8: the second call of computePositions over the same rows returns what
\* the first call returned.
C8_SecondRunSame ==
    (run = "second" /\ idx = Len(data)) => Computations(positions) = firstResult

C8_Witness ==
    /\ run = "second"
    /\ idx = Len(data)
    /\ Len(firstResult) = 2

---------------------------------------------------------------------------
(* C9 *)

\* the entries stored for the request's key that have not expired at time t
Fresh(request, t) ==
    { row \in cache : Matches(row, request) /\ t < row.expires_at }

TtlSeconds(request) == IF request.action = "quote" THEN 60 ELSE 3600

Missed(p) ==
    /\ pc[p] \in {"fetching", "inserting", "done"}
    /\ call[p].request.symbol # NoSymbol
    /\ ~call[p].hit

\* C9: with one request at a time, a get issued strictly before the stored
\* entry's expires_at answers with the stored payload and makes no provider
\* request; every other get makes exactly one provider request and, when the
\* provider answers, stores one entry expiring TTL after the fetch (60 s for
\* a quote, 3600 s for bars) and answers with what it fetched.
C9_HitWithinTtlElseOneFetch ==
    \A p \in Procs :
        /\ (pc[p] = "done" /\ call[p].hit) =>
              /\ call[p].fetches = 0
              /\ call[p].status = 200
              /\ \E row \in Fresh(call[p].request, call[p].t0) :
                     call[p].body = row.data
        /\ (Missed(p) /\ pc[p] \in {"fetching", "inserting"}) =>
              /\ Fresh(call[p].request, call[p].t0) = {}
              /\ call[p].fetches = IF pc[p] = "fetching" THEN 0 ELSE 1
        /\ (Missed(p) /\ pc[p] = "done") =>
              /\ call[p].fetches = 1
              /\ call[p].status = 500 => Fresh(call[p].request, call[p].t0) = {}
              /\ call[p].status = 200 =>
                    /\ call[p].body = call[p].data
                    /\ \A row \in Fresh(call[p].request, call[p].t0) :
                           /\ row.data = call[p].data
                           /\ row.timestamp = call[p].fetchedAt
                           /\ row.expires_at =
                                  call[p].fetchedAt + TtlSeconds(call[p].request)
                    /\ Cardinality(Fresh(call[p].request, call[p].t0)) = 1

QuoteAAPL ==
    [action |-> "quote", symbol |-> "AAPL", timeframe |-> NoTimeframe,
     start |-> NoStart]

\* get at t = 0 fetched, get at t = 30 was served from the cache, get at
\* t = 61 fetched again
C9_Witness ==
    /\ pc[1] = "done"
    /\ call[1].request = QuoteAAPL
    /\ call[1].t0 = 61
    /\ call[1].fetches = 1
    /\ call[1].status = 200
    /\ lastHit.at = 30
    /\ lastHit.request = QuoteAAPL
    /\ \E old, new \in cache :
          /\ old.timestamp = 0 /\ old.expires_at = 60 /\ old.data = lastHit.data
          /\ new.timestamp = 61 /\ new.expires_at = 121 /\ new.data = call[1].body

---------------------------------------------------------------------------
(* C10 *)

ProviderFailed(p) ==
    pc[p] = "done" /\ call[p].status = 500 /\ call[p].fetches = 1

\* C10: when the provider request of a miss fails, the caller gets the
\* failure (status 500, no payload), no entry has been written for the key
\* since the get began, and a get for the key would again be a miss.
C10_FailureNotCached ==
    \A p \in Procs :
        ProviderFailed(p) =>
            /\ call[p].body = NoPayload
            /\ { row \in cache : /\ Matches(row, call[p].request)
                                 /\ row.timestamp >= call[p].t0 } = {}
            /\ Single(Selected(cache, call[p].request, now)) = NoRow

C10_Witness ==
    /\ ProviderFailed(1)
    /\ now > call[1].t0
    /\ \E row \in cache : Matches(row, call[1].request)

---------------------------------------------------------------------------
(* C11 *)

\* a get that found entries for its key, none of them unexpired, and whose
\* fetch has been stored
RefetchedExpired(p) ==
    /\ pc[p] = "done"
    /\ ~call[p].hit
    /\ call[p].status = 200
    /\ call[p].stored # {}

\* C11 (as claimed): after a get that found the key's entry expired, the
\* store holds exactly one entry for the key.  Violated: the fetched entry
\* is inserted as a new row and the expired row is left where it is.
C11_ExpiredEntryReplaced ==
    \A p \in Procs :
        RefetchedExpired(p) => Cardinality(Stored(call[p].request)) = 1

\* C11 (amended): a get that finds the key's entry expired adds exactly one
\* entry for the key, the newly fetched one, next to the entries it found;
\* every entry the store held when a get began, expired or not, is still
\* there with the same payload and expires_at while the get runs and after
\* it completes.
C11_ExpiredEntryKept ==
    \A p \in Procs :
        /\ pc[p] # "idle" => call[p].stored \subseteq cache
        /\ RefetchedExpired(p) =>
              \E new \in cache :
                  /\ Stored(call[p].request) \ call[p].stored = {new}
                  /\ new.data = call[p].data
                  /\ new.expires_at = call[p].expiresAt
                  /\ call[p].t0 < new.expires_at
                  /\ \A old \in call[p].stored : old.expires_at <= call[p].t0

C11_Witness ==
    /\ RefetchedExpired(1)
    /\ call[1].request = QuoteAAPL
    /\ call[1].t0 = 61
    /\ Cardinality(Stored(QuoteAAPL)) = 2
    /\ \E old \in call[1].stored : old.expires_at = 60

---------------------------------------------------------------------------
(* C12 *)

\* the balance query resolved without an error and brought no row of the
\* account: there is none in the table, or data came back null
NoBalanceRecord ==
    \/ portfolio.balanceRead = "null"
    \/ /\ portfolio.balanceRead = "rows"
       /\ \A row \in balances : row.AccountCode # ACCOUNT_CODE

\* C12: when the balance store returns no record for the account, getPortfolio
\* throws the no-balance-data error and returns no Portfolio, so never one
\* with zero totalValue, totalCash and totalInvested.
C12_NoBalanceDataFails ==
    NoBalanceRecord =>
        /\ pfpc = "threw"
        /\ portfolio.error = NoBalanceData
        /\ portfolio.returned = Undefined

C12_Witness ==
    /\ pfpc = "threw"
    /\ portfolio.balanceRead = "rows"
    /\ NoBalanceRecord
    /\ balances # {}

---------------------------------------------------------------------------
(* C13 *)

\* C13: when the balance read or the trade read resolves with an error, the
\* call throws that read's error and returns no Portfolio, also when the
\* balance figures had already been computed.
C13_ReadFailureFailsCall ==
    /\ portfolio.balanceRead = "error" =>
          /\ pfpc = "threw"
          /\ portfolio.error = FailedToFetchPortfolio
          /\ portfolio.returned = Undefined
    /\ portfolio.tradesRead = "error" =>
          /\ pfpc = "threw"
          /\ portfolio.error = FailedToFetchPositions
          /\ portfolio.returned = Undefined

C13_Witness ==
    /\ pfpc = "threw"
    /\ portfolio.tradesRead = "error"
    /\ portfolio.figures.totalValue = 105000
    /\ data # <<>>

---------------------------------------------------------------------------
(* C14 *)

FiguresComputed == pfpc \in {"positions", "returned"} \/ portfolio.tradesRead # ""

\* C14: dayChangePercent is a finite number, and it is 0 whenever the
\* previous equity it would be divided by is 0, whatever the latest equity;
\* the Portfolio returned carries that value.
C14_ZeroPreviousGivesZero ==
    FiguresComputed =>
        /\ IsFinite(portfolio.figures.dayChangePercent)
        /\ portfolio.figures.previousValue = 0 =>
               portfolio.figures.dayChangePercent = RZero
        /\ portfolio.returned # Undefined =>
               portfolio.returned[1].dayChangePercent =
                   portfolio.figures.dayChangePercent

C14_Witness ==
    /\ pfpc = "returned"
    /\ portfolio.figures.previousValue = 0
    /\ portfolio.figures.totalValue = 105000
    /\ portfolio.previous # Undefined
    /\ portfolio.returned[1].dayChangePercent = RZero

---------------------------------------------------------------------------
(* C15 *)

\* the account's balance records, the newest of them and the one before it
Records == { row \in balances : row.AccountCode = ACCOUNT_CODE }
Newest(rows) == CHOOSE row \in rows : \A other \in rows : other.Date <= row.Date
Equity(row) == IF row.Account_Equity.k = "num" THEN row.Account_Equity.v ELSE 0

\* C15: totalValue is the equity of the account's newest balance record and
\* dayChange is totalValue minus the equity of the record before it; with a
\* single record the previous equity is totalValue, so dayChange = 0 and
\* dayChangePercent = 0; equity 105000 after 100000 gives dayChange 5000 and
\* dayChangePercent 5.
C15_DayChange ==
    (FiguresComputed /\ portfolio.balanceRead = "rows") =>
        LET latest == Newest(Records)
            earlier == Records \ {latest}
            figures == portfolio.figures
        IN  /\ figures.totalValue = Equity(latest)
            /\ earlier # {} =>
                   figures.dayChange = Equity(latest) - Equity(Newest(earlier))
            /\ earlier = {} =>
                   /\ figures.dayChange = 0
                   /\ figures.dayChangePercent = RZero
            /\ (earlier # {} /\ Equity(latest) = 105000
                             /\ Equity(Newest(earlier)) = 100000) =>
                   /\ figures.dayChange = 5000
                   /\ figures.dayChangePercent = RInt(5)
            /\ portfolio.returned # Undefined =>
                   /\ portfolio.returned[1].totalValue = figures.totalValue
                   /\ portfolio.returned[1].dayChange = figures.dayChange

C15_Witness ==
    /\ pfpc = "returned"
    /\ Cardinality(Records) = 3
    /\ portfolio.returned[1].totalValue = 105000
    /\ portfolio.returned[1].dayChange = 5000
    /\ portfolio.returned[1].dayChangePercent = RInt(5)

---------------------------------------------------------------------------
(* C16 *)

\* the source each of the three intents is answered from
SourceOf(intent) ==
    CASE intent = "trade_history" -> "trade_data"
      [] intent = "account_balance" -> "acct_balances"
      [] intent = "fees_commissions" -> "acct_fees"
      [] OTHER -> ""

\* the rows of `table` the request's account (or the default account) has
RowsOfAccount(table, request) ==
    { row \in TableRows(table) :
        row.account_code = IF request.account_code = NoAccount
                           THEN DEFAULT_ACCOUNT ELSE request.account_code }

---------------------------------------------------------------------------
(* C17 *)

\* C17 (as claimed): an answer produced through the fallback read differs,
\* for the caller, from an answer produced by the generated query.  Violated:
\* the AgentResponse has no field that depends on which read produced the
\* rows; with the same (non-empty) rows the two answers are equal.
C17_FallbackSurfaced ==
    (agpc = "returned" /\ firstAnswer.known /\ ag.result.data # {}
                       /\ firstAnswer.usedFallback # ag.usedFallback) =>
        firstAnswer.result # ag.result

---------------------------------------------------------------------------
(* C18 *)

UnknownIntent == ag.intent \notin
    {"trade_history", "account_balance", "fees_commissions", "market_data",
     "order_management"}

BadEntities == ag.entities \in {UndefinedEntities, "not an object"}

Classified == agpc \in {"generate", "execute", "fallback", "format", "returned"}
                \/ (agpc = "failed" /\ ag.error # "classify")

\* C18 (as claimed): with an unknown intent, or a missing or malformed entity
\* bag, the answer comes from a bounded read of a default data source.
\* Violated: with an unknown intent no source is read at all.
C18_DefaultSourceRead ==
    (agpc = "returned" /\ (UnknownIntent \/ BadEntities)) =>
        /\ ag.reads # {}
        /\ Cardinality(ag.data) <= 10

\* C18 (amended): with an unknown or missing intent processQuery generates no
\* query, reads no source and answers from an empty row list; it fails only
\* when the call that words the answer fails.  A missing or malformed entity
\* bag is passed on unread: the request goes the way its intent says, and a
\* source is read directly only by the fallback after a failed query.
C18_UnknownAnsweredEmpty ==
    Classified =>
        /\ UnknownIntent =>
              /\ ag.sqlQuery = NoSql
              /\ ag.reads = {}
              /\ ag.data = {}
              /\ agpc \in {"format", "returned", "failed"}
              /\ agpc = "failed" => ag.error = "format"
              /\ agpc = "returned" =>
                     /\ ag.result.data = {}
                     /\ ag.result.intent = ag.intent
        /\ BadEntities =>
              /\ ag.reads # {} => (ag.sqlError /\ ag.reads = {SourceOf(ag.intent)})
              /\ ag.sqlQuery # NoSql =>
                     /\ SourceOf(ag.intent) # ""
                     /\ ag.sqlQuery.entities = ag.entities
              /\ (agpc = "returned" /\ SourceOf(ag.intent) = "") =>
                     \A row \in ag.result.data : row.message # ""

C18_Witness ==
    /\ agpc = "returned"
    /\ ag.intent = "unknown"
    /\ ag.entities = "not an object"
    /\ ag.result.data = {}

---------------------------------------------------------------------------
(* C19 *)

\* C19 (as claimed): an answer for intent market_data comes out of the cache
\* in front of the provider: a lookup, and a provider request on a miss.
\* Violated: the market_data branch is a placeholder; no lookup and no
\* provider request is made, the data is a fixed message.
C19_MarketDataThroughCache ==
    (agpc = "returned" /\ ag.intent = "market_data") =>
        /\ lastHit # NoHit \/ nFetch > 0
        /\ \A row \in ag.result.data : row.message = ""

---------------------------------------------------------------------------
(* C20 *)

\* the time-to-live of each kind, in seconds
KindTtl(request) ==
    SecondsPerMinute *
        (CASE request.action = "quote" -> CACHE_DURATION_quote
           [] request.action = "snapshot" -> CACHE_DURATION_snapshot
           [] OTHER -> CACHE_DURATION_bar)

\* before this request went to the provider, the provider had answered a
\* request for the same key less than a TTL before this request came
FetchedWithinTtl(p) ==
    LET fetchedAt == lastFetch[Key(call[p].request)]
    IN  fetchedAt >= 0 /\ call[p].t0 < fetchedAt + KindTtl(call[p].request)

\* C20 (as claimed): a request for a quote, a snapshot or bars that comes
\* within the kind's TTL (1, 1 and 60 minutes) of a fetch for the same
\* symbol makes no provider request.  Violated: getSnapshot neither looks
\* into the table nor writes to it, every snapshot request goes to the
\* provider.
C20_ReusedWithinTtl ==
    \A p \in Procs :
        pc[p] = "fetching" => ~FetchedWithinTtl(p)

\* the same for the two kinds that go through the table
QuoteAndBarsReusedWithinTtl ==
    \A p \in Procs :
        (pc[p] = "fetching" /\ UsesCache(call[p].request)) => ~FetchedWithinTtl(p)

---------------------------------------------------------------------------
(* C22 *)

\* C22: every symbol in the map has average cost = cost basis / shares, and
\* a buy of q at p has raised the shares by q and the cost basis by q x p
\* before the average is recomputed.
C22_AverageIsBasisOverShares ==
    /\ \A i \in 1..Len(positions) :
          /\ positions[i].value.shares > 0
          /\ positions[i].value.avgCost =
                 RDiv(positions[i].value.costBasis, RInt(positions[i].value.shares))
    /\ (~last.skipped /\ ~last.isSell) =>
          /\ last.record.shares = last.before.shares + last.qty
          /\ last.record.costBasis =
                 RAdd(last.before.costBasis, RInt(last.qty * last.price))
          /\ MapHas(positions, last.symbol)
          /\ MapGet(positions, last.symbol).shares = last.record.shares
          /\ MapGet(positions, last.symbol).costBasis = last.record.costBasis

C22_Witness ==
    /\ ~last.skipped
    /\ ~last.isSell
    /\ last.before.shares = 1
    /\ last.before.costBasis = RInt(2)
    /\ last.qty = 2
    /\ last.price = 1
    /\ MapGet(positions, last.symbol).avgCost = Rat(4, 3)

---------------------------------------------------------------------------
(* C23 *)

\* the processed rows that are trades of `symbol`
TradesOf(symbol) ==
    { j \in 1..idx : ~Skipped(data[j]) /\ trim(data[j].Symbol) = symbol }

Latest(indices) == CHOOSE j \in indices : \A k \in indices : k <= j

RECURSIVE Volume(_)
Volume(indices) ==
    IF indices = {} THEN 0
    ELSE LET j == Latest(indices)
         IN  Abs(toNumber(data[j].StockShareQty)) + Volume(indices \ {j})

PriceOf(j) == toNumber(data[j].StockTradePrice)

\* a symbol in the map whose record was dropped earlier, when a trade left
\* it without shares
WentFlat(symbol) ==
    \E j \in TradesOf(symbol) :
        ~MapHas(Replay(SubSeq(data, 1, j)), symbol) /\ j < Latest(TradesOf(symbol))

\* C23 (as claimed): for every symbol in the map, lastPrice is the price of
\* its latest trade, previousPrice the price of the trade before that
\* (undefined when there is none) and totalVolume the sum of the quantities
\* of all its trades.  Violated: a trade that leaves the symbol without
\* shares deletes its record, and the next buy starts a new one with no
\* previous price and no volume.
C23_PricesAndVolume ==
    \A i \in 1..Len(positions) :
        LET trades == TradesOf(positions[i].key)
            earlier == trades \ {Latest(trades)}
        IN  /\ positions[i].value.lastPrice = PriceOf(Latest(trades))
            /\ positions[i].value.previousPrice =
                   IF earlier = {} THEN Undefined ELSE Some(PriceOf(Latest(earlier)))
            /\ positions[i].value.totalVolume = Volume(trades)

\* the same for the symbols whose record was never dropped
PricesAndVolumeSinceFlat ==
    \A i \in 1..Len(positions) :
        ~WentFlat(positions[i].key) =>
            LET trades == TradesOf(positions[i].key)
                earlier == trades \ {Latest(trades)}
            IN  /\ positions[i].value.lastPrice = PriceOf(Latest(trades))
                /\ positions[i].value.previousPrice =
                       IF earlier = {} THEN Undefined
                       ELSE Some(PriceOf(Latest(earlier)))
                /\ positions[i].value.totalVolume = Volume(trades)

---------------------------------------------------------------------------
(* C24 *)

\* C24: getPositions reports, per symbol of the map, total value = shares x
\* last price, total cost = shares x average cost, gain/loss = their
\* difference and gain/loss percent = gain/loss / total cost x 100 (0 when
\* the total cost is 0), in an order of non-increasing total value.
C24_PositionFieldsAndOrder ==
    LET reported == getPositions(Computations(positions))
    IN  /\ Len(reported) = Len(positions)
        /\ \A i \in 1..Len(reported) :
              LET record == MapGet(positions, reported[i].symbol)
                  value == RInt(record.shares * record.lastPrice)
                  cost == RMul(RInt(record.shares), record.avgCost)
              IN  /\ reported[i].shares = record.shares
                  /\ reported[i].totalValue = value
                  /\ reported[i].totalCost = cost
                  /\ reported[i].gainLoss = RSub(value, cost)
                  /\ reported[i].gainLossPercent =
                         IF cost = RZero THEN RZero
                         ELSE RMul(RDiv(RSub(value, cost), cost), RInt(100))
        /\ \A i \in 1..(Len(reported) - 1) :
              RLeq(reported[i + 1].totalValue, reported[i].totalValue)

C24_Witness ==
    LET reported == getPositions(Computations(positions))
    IN  /\ idx = Len(data)
        /\ Len(reported) = 2
        /\ reported[1].symbol # positions[1].key
        /\ RLess(reported[2].totalValue, reported[1].totalValue)
        /\ reported[1].gainLossPercent # RZero

---------------------------------------------------------------------------
(* C28 *)

\* row j of the processed rows is a sell of a symbol that had no shares
SellWithoutHoldings(j) ==
    /\ ~Skipped(data[j])
    /\ IsSell(data[j].TradeType)
    /\ ~MapHas(Replay(SubSeq(data, 1, j - 1)), trim(data[j].Symbol))

\* C28: a sell of a symbol with no holdings leaves the symbol out of the
\* map, and everything after it is as if that sell were not in the ledger:
\* a later buy of q at p of the symbol starts from no shares and no cost.
C28_SellWithoutHoldingsIgnored ==
    /\ (~last.skipped /\ last.isSell /\ last.before.shares = 0) =>
          ~MapHas(positions, last.symbol)
    /\ \A j \in 1..idx :
          SellWithoutHoldings(j) => positions = Replay(Without(Processed, j))
    /\ (idx >= 2 /\ SellWithoutHoldings(idx - 1) /\ ~last.skipped /\ ~last.isSell
              /\ last.symbol = trim(data[idx - 1].Symbol)) =>
          /\ MapGet(positions, last.symbol).shares = last.qty
          /\ MapGet(positions, last.symbol).costBasis = RInt(last.qty * last.price)

C28_Witness ==
    /\ idx = 3
    /\ SellWithoutHoldings(1)
    /\ SellWithoutHoldings(2)
    /\ data[1] # data[2]
    /\ ~last.skipped
    /\ ~last.isSell
    /\ last.symbol = trim(data[2].Symbol)
    /\ MapGet(positions, last.symbol).shares = last.qty

---------------------------------------------------------------------------
(* C21 *)

\* C21: calls for one key that find no unexpired entry are not merged: a
\* call still waiting for the provider has made no request yet, a call that
\* is past it has made exactly one request of its own, it answers with the
\* payload that request returned, and no two calls in progress answer
\* with the result of the same provider request.
C21_EachMissFetches ==
    /\ \A p \in Procs :
          Missed(p) =>
             /\ pc[p] = "fetching" => call[p].fetches = 0
             /\ pc[p] \in {"inserting", "done"} => call[p].fetches = 1
             /\ (pc[p] = "done" /\ call[p].status = 200) =>
                    /\ call[p].body = call[p].data
                    /\ call[p].body.serial \in 1..nFetch
                    /\ call[p].body.symbol = call[p].request.symbol
    /\ \A p \in Procs, q \in Procs :
          (p # q /\ Missed(p) /\ Missed(q)
               /\ call[p].data # NoPayload /\ call[q].data # NoPayload) =>
             call[p].data.serial # call[q].data.serial

\* two calls for the same key, each started before the other had stored
\* anything, have both answered
C21_Witness ==
    /\ \A p \in Procs :
          /\ pc[p] = "done"
          /\ Missed(p)
          /\ call[p].stored = {}
          /\ call[p].status = 200
    /\ call[1].request = call[2].request
    /\ call[1].t0 = call[2].t0
    /\ call[1].body # call[2].body
    /\ nFetch = 2
    /\ Cardinality(cache) = 2

---------------------------------------------------------------------------
(* C27 *)

\* when the call of p came, the table held an entry for its key that had
\* not expired
CameBeforeExpiry(p) ==
    /\ pc[p] # "idle"
    /\ call[p].request.symbol # NoSymbol
    /\ UsesCache(call[p].request)
    /\ \E row \in call[p].stored : call[p].t0 < row.expires_at

\* C27 (as claimed): a get that comes while an entry stored for its key has
\* not expired answers from the table and makes no provider request, also
\* when the entry was stored by one of several overlapping misses.
\* Violated: overlapping misses each insert a row, and with two unexpired
\* rows for the key .single() yields no row, so the get is a miss.
C27_StoredEntryServes ==
    \A p \in Procs :
        CameBeforeExpiry(p) => (call[p].hit /\ call[p].fetches = 0)

---------------------------------------------------------------------------
(* C25 *)

\* the row was stored for the key of the request
StoredFor(row, request) ==
    /\ row.symbol = request.symbol
    /\ row.data_type = DataType(request)
    /\ row.timeframe = RowTimeframe(request)

\* the documents the provider has returned so far for the key of the request
ProviderAnswers(request) ==
    { Payload(asked, serial) :
        asked \in { r \in KeyRequests : Key(r) = Key(request) },
        serial \in 1..nFetch }

\* C25: a get that answers from the table returns the data of a row stored
\* for its own symbol, data type and timeframe, unexpired when the get came;
\* that data is a document the provider returned for this key, unchanged,
\* and it is about the request's symbol, kind and timeframe.
C25_HitOnlyForSameKey ==
    \A p \in Procs :
        (pc[p] = "done" /\ call[p].hit) =>
            /\ \E row \in cache :
                  /\ StoredFor(row, call[p].request)
                  /\ call[p].t0 < row.expires_at
                  /\ row.data = call[p].body
            /\ call[p].body \in ProviderAnswers(call[p].request)
            /\ call[p].body.symbol = call[p].request.symbol
            /\ call[p].body.action = call[p].request.action
            /\ call[p].body.timeframe = RowTimeframe(call[p].request)
            /\ call[p].fetches = 0

\* hourly bars are answered from the table while the table also holds
\* unexpired daily bars and an unexpired quote of the same symbol
C25_Witness ==
    /\ pc[1] = "done"
    /\ call[1].hit
    /\ call[1].request.action = "bars"
    /\ call[1].request.timeframe = "1Hour"
    /\ call[1].body.timeframe = "1Hour"
    /\ \E row \in cache :
          /\ row.symbol = call[1].request.symbol
          /\ row.data_type = "bar"
          /\ row.timeframe = "1Day"
          /\ now < row.expires_at
    /\ \E row \in cache :
          /\ row.symbol = call[1].request.symbol
          /\ row.data_type = "quote"
          /\ now < row.expires_at

---------------------------------------------------------------------------
(* C26 *)

\* the table as it would be had clean_expired_cache never run
Unpurged == cache \cup purged

\* C26: clean_expired_cache has removed only rows whose expires_at has
\* passed, and a get that comes now selects the same row, or none, from the
\* table as from the table that was never purged: the same hit or miss and
\* the same payload.
C26_PurgeChangesNoGet ==
    /\ \A row \in purged : row.expires_at < now
    /\ cache \cap purged = {}
    /\ \A request \in Requests :
          Single(Selected(Unpurged, request, now)) =
              Single(Selected(cache, request, now))
    /\ \A p \in Procs :
          (pc[p] = "done" /\ call[p].hit) =>
              \E row \in Unpurged :
                  /\ row.data = call[p].body
                  /\ call[p].t0 < row.expires_at
                  /\ row \in purged => row.expires_at < now

\* after a purge that removed the expired quote of a symbol, bars of the
\* symbol are answered from the table
C26_Witness ==
    /\ pc[1] = "done"
    /\ call[1].hit
    /\ call[1].t0 = now
    /\ \E row \in purged :
          /\ row.symbol = call[1].request.symbol
          /\ row.expires_at < call[1].t0
    /\ \A row \in cache : ~Expired(row, now)

---------------------------------------------------------------------------
(* C29 *)

\* the chunk came on a connection opened after disconnect(), it was not
\* dropped from the queue, and its bytes were not refused
DueAfterReconnect(c) ==
    /\ heard[c].reconnected
    /\ heard[c].fate \notin {"queued", "dropped", "decoding", "undecodable"}

\* C29 (as claimed): a chunk of agent audio received on a connection that
\* was opened after disconnect() is played once processAudioQueue is done
\* with it.  Violated: cleanup() closes the one AudioContext the
\* constructor made, nothing makes another, and a closed context plays
\* nothing.
C29_AudioPlayedAfterReconnect ==
    \A c \in Chunks :
        DueAfterReconnect(c) => heard[c].fate \in {"playing", "ended", "cut"}

\* no chunk received after disconnect() is ever started
NothingPlayedAfterDisconnect ==
    \A c \in Chunks :
        heard[c].reconnected =>
            /\ heard[c].fate \notin {"playing", "ended", "cut"}
            /\ \A i \in 1..Len(started) : started[i] # c

---------------------------------------------------------------------------
(* C30 *)

\* at most one chunk is playing, and the chunks were started in the order
\* they were received
OneAtATimeInOrder ==
    /\ Cardinality(Playing) <= 1
    /\ \A i \in 1..Len(started), j \in 1..Len(started) :
          i < j => started[i] < started[j]

\* C30 (as claimed): whatever the order of 'audio' messages, interruptions
\* and onended callbacks, at most one chunk of agent audio is playing and
\* chunks start in the order of receipt.  Violated: an interruption clears
\* isProcessingAudio but stops neither the source that is playing nor the
\* decode in progress, so the next 'audio' message starts a second
\* processAudioQueue next to them.
C30_OneChunkAtATimeInOrder == OneAtATimeInOrder

\* as long as playback has not been interrupted it is one chunk at a time,
\* in order
OneAtATimeUntilInterrupted == ~interrupted => OneAtATimeInOrder

===========================================================================
